---- MODULE Spec2Model ----
(***************************************************************************)
(* Model of cvxpy/lin_ops/lin_to_matrix.py: get_coefficients lowers a tree *)
(* of linear operators (LinOp) to a list of (id, size, block) triples.     *)
(*                                                                         *)
(* Matrices are records [nr, nc, a] with the entries stored row by row in  *)
(* the sequence a; indices are 0-based as in the source.  A Python number  *)
(* is the 1 x 1 matrix holding it, and a 1 x 1 operand of * scales the     *)
(* other operand.  A LinOp is a record with one field per payload (id,     *)
(* value, key), the unused ones holding a default.                         *)
(*                                                                         *)
(* The helpers of cvxpy.interface and cvxpy.utilities.key_utils are taken  *)
(* as the design describes them: scale_slice multiplies and offset_slice   *)
(* shifts start and stop, indexing clips a slice to the rows there are.    *)
(*                                                                         *)
(* Two specifications: Spec builds LinOp trees operator by operator and    *)
(* compiles each; SpecMul follows one call of mul_coeffs statement by      *)
(* statement.  A call that never returns has the status "NoReturn".        *)
(***************************************************************************)
EXTENDS Integers, Sequences, FiniteSets, TLC

\* ------------------------------------------------------------------ bounds
MaxRows == 2     \* rows of a leaf's shape
MaxCols == 3     \* columns of a leaf's shape
MaxSeed == 1     \* distinct constant values per shape
MaxDepth == 2    \* operators stacked on top of the initial tree
MulUnroll == 3   \* rounds of the aliased MUL loop followed before it is called endless
MaxList == 6     \* length of new_coeffs up to which the MUL loop is followed step by step
MaxArgs == 3     \* children of the SUM inside a MUL operand of the stepped loop

\* ------------------------------------------------------- lin_op constants
VARIABLE_ == "VARIABLE"
PARAM == "PARAM"
SCALAR_CONST == "SCALAR_CONST"
DENSE_CONST == "DENSE_CONST"
SPARSE_CONST == "SPARSE_CONST"
SUM == "SUM"
NEG == "NEG"
MUL == "MUL"
SUM_ENTRIES == "SUM_ENTRIES"
INDEX == "INDEX"
TRANSPOSE == "TRANSPOSE"
UNKNOWN_OP == "RESHAPE"
ConstantId == 0

Min(a, b) == IF a < b THEN a ELSE b

\* ---------------------------------------------------------------- matrices
Mat(nr, nc, F(_, _)) ==
  [nr |-> nr, nc |-> nc,
   a |-> [k \in 1..(nr * nc) |-> F((k - 1) \div nc, (k - 1) % nc)]]

At(M, i, j) == M.a[i * M.nc + j + 1]

EyeEntry(i, j) == IF i = j THEN 1 ELSE 0

\* sp.eye(n)
Eye(n) == Mat(n, n, EyeEntry)

\* interface.zeros(n, m)
Zeros(n, m) == Mat(n, m, LAMBDA i, j : 0)

\* -block
Negate(M) == Mat(M.nr, M.nc, LAMBDA i, j : 0 - At(M, i, j))

RECURSIVE SumTo(_, _)
SumTo(F(_), n) == IF n = 0 THEN 0 ELSE F(n - 1) + SumTo(F, n - 1)

\* np.sum(block)
SumAll(M) == Mat(1, 1, LAMBDA i, j : SumTo(LAMBDA k : M.a[k + 1], M.nr * M.nc))

\* block.sum(axis=0)
SumAxis0(M) == Mat(1, M.nc, LAMBDA i, j : SumTo(LAMBDA r : At(M, r, j), M.nr))

\* intf.size
size(M) == <<M.nr, M.nc>>

\* intf.is_scalar
is_scalar(M) == size(M) = <<1, 1>>

Scale(s, M) == Mat(M.nr, M.nc, LAMBDA i, j : s * At(M, i, j))

MatMul(A, B) ==
  Mat(A.nr, B.nc, LAMBDA i, j : SumTo(LAMBDA k : At(A, i, k) * At(B, k, j), A.nc))

\* a * b of two matrix-like values: a number scales, otherwise the matrix
\* product, which needs the inner dimensions to agree.
CanTimes(A, B) == is_scalar(A) \/ is_scalar(B) \/ A.nc = B.nr

Times(A, B) ==
  IF is_scalar(A) THEN Scale(At(A, 0, 0), B)
  ELSE IF is_scalar(B) THEN Scale(At(B, 0, 0), A)
  ELSE MatMul(A, B)

\* sp.block_diag(n*[M])
BlockDiag(n, M) ==
  Mat(n * M.nr, n * M.nc,
      LAMBDA i, j : IF (i \div M.nr) = (j \div M.nc)
                    THEN At(M, i % M.nr, j % M.nc) ELSE 0)

\* flatten(matrix): the matrix as one column, column after column.
flatten(matrix) ==
  Mat(matrix.nr * matrix.nc, 1,
      LAMBDA k, j : At(matrix, k % matrix.nr, k \div matrix.nr))

\* ------------------------------------------------------------------ slices
Slice(start, stop, step) == [start |-> start, stop |-> stop, step |-> step]

\* the indices a slice selects from a dimension of length n
SliceLen(s, n) ==
  LET lo == Min(s.start, n)
      hi == Min(s.stop, n)
  IN  IF hi <= lo THEN 0 ELSE (hi - lo + s.step - 1) \div s.step

SliceAt(s, k) == s.start + k * s.step

\* ku.scale_slice
scale_slice(key, scale) == Slice(key.start * scale, key.stop * scale, key.step)

\* ku.offset_slice
offset_slice(key, offset) == Slice(key.start + offset, key.stop + offset, key.step)

\* intf.index(block, (rows, slice(None, None, None)))
IndexRows(M, rs) ==
  Mat(SliceLen(rs, M.nr), M.nc, LAMBDA i, j : At(M, SliceAt(rs, i), j))

\* intf.index(block, key)
index(M, key) ==
  IF is_scalar(M) THEN M
  ELSE Mat(SliceLen(key[1], M.nr), SliceLen(key[2], M.nc),
           LAMBDA i, j : At(M, SliceAt(key[1], i), SliceAt(key[2], j)))

\* ------------------------------------------------------------------ LinOps
NoKey == <<Slice(0, 0, 1), Slice(0, 0, 1)>>
NoValue == Zeros(0, 0)

LinOp(type, sz, id, value, key, args) ==
  [type |-> type, size |-> sz, id |-> id, value |-> value, key |-> key, args |-> args]

\* ---------------------------------------------------------------- results
Triple(id, sz, block) == [id |-> id, size |-> sz, block |-> block]

Ok(coeffs) == [status |-> "ok", coeffs |-> coeffs]
Raise(what) == [status |-> what, coeffs |-> <<>>]

\* ------------------------------------------------------- the inner product
TimesOrRaise(A, B) ==
  IF CanTimes(A, B) THEN [ok |-> TRUE, block |-> Times(A, B)]
  ELSE [ok |-> FALSE, block |-> NoValue]

\* MulProduct with the operands of every product exchanged
MulProductSwapped(constant, lh_size, id_, rh_size, coeff, cols) ==
  LET rep_mat == BlockDiag(cols, constant)
  IN  IF is_scalar(constant) \/ id_ = ConstantId \/ cols = 1
      THEN TimesOrRaise(coeff, constant)
      ELSE IF lh_size # <<1, 1>> /\ rh_size = <<1, 1>>
      THEN LET flattened_const == flatten(constant)
           IN  TimesOrRaise(coeff, flattened_const)
      ELSE TimesOrRaise(coeff, rep_mat)

\* One pass of the body of mul_coeffs' inner loop: the product of one
\* left-hand constant with one right-hand coefficient.
MulProduct(constant, lh_size, id_, rh_size, coeff, cols) ==
  LET rep_mat == BlockDiag(cols, constant)
  IN  IF is_scalar(constant) \/ id_ = ConstantId \/ cols = 1
      THEN TimesOrRaise(constant, coeff)
      ELSE IF lh_size # <<1, 1>> /\ rh_size = <<1, 1>>
      THEN LET flattened_const == flatten(constant)
           IN  TimesOrRaise(flattened_const, coeff)
      ELSE TimesOrRaise(rep_mat, coeff)

\* The inner loop over a right-hand list that is not new_coeffs (first
\* left-hand triple): every right-hand triple is multiplied once.
RECURSIVE MulInner(_, _, _, _, _)
MulInner(lh, rh_coeffs, j, new_coeffs, cols) ==
  IF j > Len(rh_coeffs) THEN Ok(new_coeffs)
  ELSE LET r == rh_coeffs[j]
           p == MulProduct(lh.block, lh.size, r.id, r.size, r.block, cols)
       IN  IF ~p.ok THEN Raise("ValueError")
           ELSE MulInner(lh, rh_coeffs, j + 1,
                         Append(new_coeffs, Triple(r.id, r.size, p.block)), cols)

\* The inner loop once rh_coeffs is new_coeffs itself (every left-hand triple
\* after the first): each pass appends to the list being iterated, so the
\* loop ends only if the list is empty or a product raises.  The shapes of
\* the appended blocks repeat after MulUnroll rounds over the list.
RECURSIVE MulInnerAliased(_, _, _, _, _)
MulInnerAliased(lh, j, new_coeffs, cols, fuel) ==
  IF j > Len(new_coeffs) THEN Ok(new_coeffs)
  ELSE IF fuel = 0 THEN Raise("NoReturn")
  ELSE LET r == new_coeffs[j]
           p == MulProduct(lh.block, lh.size, r.id, r.size, r.block, cols)
       IN  IF ~p.ok THEN Raise("ValueError")
           ELSE MulInnerAliased(lh, j + 1,
                                Append(new_coeffs, Triple(r.id, r.size, p.block)),
                                cols, fuel - 1)

\* The outer loop of mul_coeffs, from left-hand triple i on.
RECURSIVE MulOuter(_, _, _, _, _)
MulOuter(lh_coeffs, i, rh_coeffs, new_coeffs, cols) ==
  IF i > Len(lh_coeffs) THEN Ok(new_coeffs)
  ELSE LET inner == IF i = 1
                    THEN MulInner(lh_coeffs[i], rh_coeffs, 1, new_coeffs, cols)
                    ELSE MulInnerAliased(lh_coeffs[i], 1, new_coeffs, cols,
                                         MulUnroll * Len(new_coeffs))
       IN  IF inner.status # "ok" THEN inner
           ELSE MulOuter(lh_coeffs, i + 1, inner.coeffs, inner.coeffs, cols)

\* ------------------------------------------------------------ the compiler
\* TransposeBlock with t_row and t_col exchanged
TransposeBlockSwapped(rows, cols) ==
  Mat(rows * cols, rows * cols,
      LAMBDA i, j : IF \E row \in 0..(rows - 1), col \in 0..(cols - 1) :
                         /\ i = col * rows + row
                         /\ j = row * cols + col
                    THEN 1 ELSE 0)

\* the block of transpose_coeffs
TransposeBlock(rows, cols) ==
  Mat(rows * cols, rows * cols,
      LAMBDA i, j : IF \E row \in 0..(rows - 1), col \in 0..(cols - 1) :
                         /\ i = row * cols + col     \* t_row
                         /\ j = col * rows + row     \* t_col
                    THEN 1 ELSE 0)

\* the loop "for col in range(cols)" of index_coeffs
RECURSIVE IndexRowLoop(_, _, _, _, _)
IndexRowLoop(block, key, rows, col, cols) ==
  IF col >= cols THEN block
  ELSE IndexRowLoop(IndexRows(block, offset_slice(key[1], col * rows)),
                    key, rows, col + 1, cols)

\* the body of index_coeffs' loop over the child's triples
IndexTriple(lin_op, t) ==
  LET key == lin_op.key
  IN  IF t.id = ConstantId
      THEN Triple(t.id, lin_op.size, index(t.block, key))
      ELSE LET rows == lin_op.args[1].size[1]
               cols == IF t.size = <<1, 1>> THEN lin_op.args[1].size[2] ELSE t.size[2]
               col_key == scale_slice(key[2], rows)
           IN  Triple(t.id, t.size,
                      IndexRowLoop(IndexRows(t.block, col_key), key, rows, 0, cols))

\* the body of sum_entries_coeffs' loop
SumEntriesTriple(t) ==
  IF t.id = ConstantId
  THEN Triple(t.id, <<1, 1>>, SumAll(t.block))
  ELSE Triple(t.id, t.size, SumAxis0(t.block))

\* the body of neg_coeffs' loop
NegTriple(t) == Triple(t.id, t.size, Negate(t.block))

RECURSIVE get_coefficients(_)
RECURSIVE SumLoop(_, _, _)

\* SumLoop putting each child's triples in front of the earlier ones
RECURSIVE SumLoopPrepending(_, _, _)
SumLoopPrepending(args, k, coeffs) ==
  IF k > Len(args) THEN Ok(coeffs)
  ELSE LET c == get_coefficients(args[k])
       IN  IF c.status # "ok" THEN c
           ELSE SumLoopPrepending(args, k + 1, c.coeffs \o coeffs)

\* the loop "for arg in lin_op.args: coeffs += get_coefficients(arg)"
SumLoop(args, k, coeffs) ==
  IF k > Len(args) THEN Ok(coeffs)
  ELSE LET c == get_coefficients(args[k])
       IN  IF c.status # "ok" THEN c
           ELSE SumLoop(args, k + 1, coeffs \o c.coeffs)

sum_coeffs(lin_op) == SumLoop(lin_op.args, 1, <<>>)

sum_entries_coeffs(lin_op) ==
  LET c == get_coefficients(lin_op.args[1])
  IN  IF c.status # "ok" THEN c
      ELSE Ok([k \in 1..Len(c.coeffs) |-> SumEntriesTriple(c.coeffs[k])])

\* neg_coeffs catching its child's failure and returning no triples
neg_coeffs_swallowing(lin_op) ==
  LET c == get_coefficients(lin_op.args[1])
  IN  IF c.status # "ok" THEN Ok(<<>>)
      ELSE Ok([k \in 1..Len(c.coeffs) |-> NegTriple(c.coeffs[k])])

neg_coeffs(lin_op) ==
  LET c == get_coefficients(lin_op.args[1])
  IN  IF c.status # "ok" THEN c
      ELSE Ok([k \in 1..Len(c.coeffs) |-> NegTriple(c.coeffs[k])])

mul_coeffs(lin_op) ==
  LET lh == get_coefficients(lin_op.args[1])
  IN  IF lh.status # "ok" THEN lh
      ELSE LET rh == get_coefficients(lin_op.args[2])
           IN  IF rh.status # "ok" THEN rh
               ELSE MulOuter(lh.coeffs, 1, rh.coeffs, <<>>, lin_op.size[2])

index_coeffs(lin_op) ==
  LET c == get_coefficients(lin_op.args[1])
  IN  IF c.status # "ok" THEN c
      ELSE Ok([k \in 1..Len(c.coeffs) |-> IndexTriple(lin_op, c.coeffs[k])])

transpose_coeffs(lin_op) ==
  LET c == get_coefficients(lin_op.args[1])
  IN  IF c.status # "ok" THEN c
      ELSE IF Len(c.coeffs) # 1 THEN Raise("AssertionError")
      ELSE LET t == c.coeffs[1]
           IN  Ok(<<Triple(t.id, t.size, TransposeBlock(t.size[1], t.size[2]))>>)

get_coefficients(lin_op) ==
  IF lin_op.type = VARIABLE_
  THEN Ok(<<Triple(lin_op.id, lin_op.size, Eye(lin_op.size[1] * lin_op.size[2]))>>)
  ELSE IF lin_op.type = PARAM
  THEN Ok(<<Triple(ConstantId, lin_op.size, lin_op.value)>>)
  ELSE IF lin_op.type \in {SCALAR_CONST, DENSE_CONST, SPARSE_CONST}
  THEN Ok(<<Triple(ConstantId, lin_op.size, lin_op.value)>>)
  ELSE IF lin_op.type = SUM THEN sum_coeffs(lin_op)
  ELSE IF lin_op.type = NEG THEN neg_coeffs(lin_op)
  ELSE IF lin_op.type = MUL THEN mul_coeffs(lin_op)
  ELSE IF lin_op.type = SUM_ENTRIES THEN sum_entries_coeffs(lin_op)
  ELSE IF lin_op.type = INDEX THEN index_coeffs(lin_op)
  ELSE IF lin_op.type = TRANSPOSE THEN transpose_coeffs(lin_op)
  ELSE Raise("UnknownOperator")

\* --------------------------------------------------------- operator trees
\* tree: the LinOp at hand; out: what get_coefficients gave for it; depth:
\* the operators stacked on the initial tree.  The other variables are the
\* locals of one call of mul_coeffs followed statement by statement: pc is
\* its position, lh_pos and rh_pos the next positions of the two for loops, aliased
\* tells that rh_coeffs and new_coeffs are the same list object.
VARIABLES tree, out, depth, pc, lh_coeffs, rh_coeffs, new_coeffs, lh_pos, rh_pos, aliased

vars == <<tree, out, depth, pc, lh_coeffs, rh_coeffs, new_coeffs, lh_pos, rh_pos, aliased>>

locals == <<lh_coeffs, rh_coeffs, new_coeffs, lh_pos, rh_pos, aliased>>

Shapes == (1..MaxRows) \X (1..MaxCols)

VarId(r, c) == (r - 1) * MaxCols + c

ConstValue(r, c, s) == Mat(r, c, LAMBDA i, j : s + i * c + j)

Variable(sz) == LinOp(VARIABLE_, sz, VarId(sz[1], sz[2]), NoValue, NoKey, <<>>)

Const(kind, sz, s) ==
  LinOp(kind, sz, ConstantId, ConstValue(sz[1], sz[2], s), NoKey, <<>>)

Unknown(sz, args) == LinOp(UNKNOWN_OP, sz, ConstantId, NoValue, NoKey, args)

Node(type, sz, args) == LinOp(type, sz, ConstantId, NoValue, NoKey, args)

Leaves ==
  {Variable(sz) : sz \in Shapes}
    \cup {Const(SCALAR_CONST, <<1, 1>>, s) : s \in 1..MaxSeed}
    \cup {Const(k, sz, s) : k \in {PARAM, DENSE_CONST, SPARSE_CONST},
                            sz \in Shapes, s \in 1..MaxSeed}

\* the operands a SUM or MUL is built with next to the tree at hand
Siblings(sz) == {Variable(sz), Const(DENSE_CONST, sz, 1), Unknown(sz, <<>>)}

\* the size the builder gives a MUL node
MulSize(lsz, rsz) ==
  IF lsz = <<1, 1>> THEN rsz
  ELSE IF rsz = <<1, 1>> THEN lsz
  ELSE <<lsz[1], rsz[2]>>

\* the constants that can multiply an operand of size sz from the left
LeftConsts(sz) ==
  {Const(SCALAR_CONST, <<1, 1>>, 1)}
    \cup {Const(k, <<m, sz[1]>>, 1) : k \in {PARAM, DENSE_CONST, SPARSE_CONST},
                                       m \in 1..MaxRows}
    \cup (IF sz = <<1, 1>> THEN {Const(DENSE_CONST, s, 1) : s \in Shapes} ELSE {})

\* the step-1 slices start:stop within a dimension of length n
Slices(n) == UNION {{Slice(a, b, 1) : b \in (a + 1)..n} : a \in 0..(n - 1)}

\* the left operand of a MUL is an expression without variables
RECURSIVE IsConstant(_)
IsConstant(n) ==
  /\ n.type # VARIABLE_
  /\ \A k \in 1..Len(n.args) : IsConstant(n.args[k])

Compile(t) ==
  /\ tree' = t
  /\ out' = get_coefficients(t)
  /\ depth' = depth + 1
  /\ UNCHANGED <<pc, locals>>

\* the trees the builder starts from: a leaf, or the sum of two leaves
Atoms ==
  Leaves
    \cup {Node(SUM, sz, <<Variable(sz), Const(DENSE_CONST, sz, 1)>>) : sz \in Shapes}
    \cup {Node(SUM, sz, <<Const(DENSE_CONST, sz, 1), Const(DENSE_CONST, sz, 1)>>) : sz \in Shapes}

Init ==
  /\ tree \in Atoms
  /\ out = get_coefficients(tree)
  /\ depth = 0
  /\ pc = "idle"
  /\ lh_coeffs = <<>> /\ rh_coeffs = <<>> /\ new_coeffs = <<>>
  /\ lh_pos = 0 /\ rh_pos = 0 /\ aliased = FALSE

MkNeg == depth < MaxDepth /\ Compile(Node(NEG, tree.size, <<tree>>))

MkTranspose ==
  depth < MaxDepth /\ Compile(Node(TRANSPOSE, <<tree.size[2], tree.size[1]>>, <<tree>>))

MkSumEntries == depth < MaxDepth /\ Compile(Node(SUM_ENTRIES, <<1, 1>>, <<tree>>))

MkUnknown == depth < MaxDepth /\ Compile(Unknown(tree.size, <<tree>>))

MkIndex ==
  /\ depth < MaxDepth
  /\ \E rs \in Slices(tree.size[1]), cs \in Slices(tree.size[2]) :
       Compile(LinOp(INDEX, <<SliceLen(rs, tree.size[1]), SliceLen(cs, tree.size[2])>>,
                     ConstantId, NoValue, <<rs, cs>>, <<tree>>))

MkSum ==
  /\ depth < MaxDepth
  /\ \E sib \in Siblings(tree.size) :
       \/ Compile(Node(SUM, tree.size, <<tree, sib>>))
       \/ Compile(Node(SUM, tree.size, <<sib, tree>>))
       \/ /\ tree.type = SUM
          /\ Compile([tree EXCEPT !.args = Append(@, sib)])

MkMul ==
  /\ depth < MaxDepth
  /\ \/ \E c \in LeftConsts(tree.size) :
          Compile(Node(MUL, MulSize(c.size, tree.size), <<c, tree>>))
     \/ \E n \in 1..MaxCols :
          /\ IsConstant(tree)
          /\ Compile(Node(MUL, MulSize(tree.size, <<tree.size[2], n>>),
                       <<tree, Variable(<<tree.size[2], n>>)>>))

Next == MkNeg \/ MkTranspose \/ MkSumEntries \/ MkUnknown \/ MkIndex \/ MkSum \/ MkMul

Spec == Init /\ [][Next]_vars

\* ------------------------------------------- mul_coeffs, step by step
LeftOperands(sz) ==
  {Const(DENSE_CONST, sz, 1), Unknown(sz, <<>>)}
    \cup {Node(SUM, sz, [a \in 1..n |-> Const(DENSE_CONST, sz, a)]) : n \in 2..MaxArgs}

RightOperands(sz) ==
  Siblings(sz) \cup {Node(SUM, sz, <<Variable(sz), Const(DENSE_CONST, sz, 1)>>)}

MulInputs ==
  UNION {{Node(MUL, MulSize(l.size, r.size), <<l, r>>) :
            l \in LeftOperands(lsz), r \in RightOperands(<<lsz[2], n>>)} :
         lsz \in Shapes, n \in 1..MaxCols}

InitMul ==
  /\ tree \in MulInputs
  /\ out = [status |-> "running", coeffs |-> <<>>]
  /\ depth = 0
  /\ pc = "start"
  /\ lh_coeffs = <<>> /\ rh_coeffs = <<>> /\ new_coeffs = <<>>
  /\ lh_pos = 0 /\ rh_pos = 0 /\ aliased = FALSE

\* lines 157-160: both operands compile
MulEnter ==
  /\ pc = "start"
  /\ get_coefficients(tree.args[1]).status = "ok"
  /\ get_coefficients(tree.args[2]).status = "ok"
  /\ lh_coeffs' = get_coefficients(tree.args[1]).coeffs
  /\ rh_coeffs' = get_coefficients(tree.args[2]).coeffs
  /\ new_coeffs' = <<>>
  /\ lh_pos' = 1
  /\ pc' = "outer"
  /\ UNCHANGED <<tree, out, depth, rh_pos, aliased>>

\* lines 157-158: an operand fails and the failure leaves mul_coeffs
MulEnterRaise ==
  /\ pc = "start"
  /\ \/ get_coefficients(tree.args[1]).status # "ok"
     \/ get_coefficients(tree.args[2]).status # "ok"
  /\ out' = IF get_coefficients(tree.args[1]).status # "ok"
            THEN get_coefficients(tree.args[1])
            ELSE get_coefficients(tree.args[2])
  /\ pc' = "raised"
  /\ UNCHANGED <<tree, depth, locals>>

\* line 162: the outer for takes the next left-hand triple
MulOuterNext ==
  /\ pc = "outer"
  /\ lh_pos <= Len(lh_coeffs)
  /\ rh_pos' = 1
  /\ pc' = "inner"
  /\ UNCHANGED <<tree, out, depth, lh_coeffs, rh_coeffs, new_coeffs, lh_pos, aliased>>

\* lines 162, 180: the outer for is exhausted, new_coeffs is returned
MulReturn ==
  /\ pc = "outer"
  /\ lh_pos > Len(lh_coeffs)
  /\ out' = Ok(new_coeffs)
  /\ pc' = "done"
  /\ UNCHANGED <<tree, depth, locals>>

\* the product of the inner loop's pass at hand
CurrentProduct ==
  MulProduct(lh_coeffs[lh_pos].block, lh_coeffs[lh_pos].size, rh_coeffs[rh_pos].id,
             rh_coeffs[rh_pos].size, rh_coeffs[rh_pos].block, tree.size[2])

\* lines 163-177: one pass of the inner for; the append reaches rh_coeffs
\* too when it is the same list
MulInnerBody ==
  /\ pc = "inner"
  /\ rh_pos <= Len(rh_coeffs)
  /\ Len(new_coeffs) < MaxList
  /\ CurrentProduct.ok
  /\ new_coeffs' = Append(new_coeffs,
                          Triple(rh_coeffs[rh_pos].id, rh_coeffs[rh_pos].size, CurrentProduct.block))
  /\ rh_coeffs' = IF aliased THEN new_coeffs' ELSE rh_coeffs
  /\ rh_pos' = rh_pos + 1
  /\ UNCHANGED <<tree, out, depth, pc, lh_coeffs, lh_pos, aliased>>

\* lines 169, 173, 176: the product's dimensions do not agree
MulInnerRaise ==
  /\ pc = "inner"
  /\ rh_pos <= Len(rh_coeffs)
  /\ ~CurrentProduct.ok
  /\ out' = Raise("ValueError")
  /\ pc' = "raised"
  /\ UNCHANGED <<tree, depth, locals>>

\* lines 163, 178: the inner for is exhausted; rh_coeffs = new_coeffs
MulInnerEnd ==
  /\ pc = "inner"
  /\ rh_pos > Len(rh_coeffs)
  /\ rh_coeffs' = new_coeffs
  /\ aliased' = TRUE
  /\ lh_pos' = lh_pos + 1
  /\ pc' = "outer"
  /\ UNCHANGED <<tree, out, depth, lh_coeffs, new_coeffs, rh_pos>>

NextMul ==
  \/ MulEnter \/ MulEnterRaise \/ MulOuterNext \/ MulReturn
  \/ MulInnerBody \/ MulInnerRaise \/ MulInnerEnd

SpecMul == InitMul /\ [][NextMul]_vars

\* ------------------------------------------------------ direct evaluation
\* The value of variable sz under assignment e: e = 0 numbers the entries
\* column after column, e > 0 is the unit assignment of entry e.
VarValue(sz, e) ==
  Mat(sz[1], sz[2],
      LAMBDA i, j : IF e = 0 THEN j * sz[1] + i + 1
                    ELSE IF j * sz[1] + i + 1 = e THEN 1 ELSE 0)

Envs == 0..(MaxCols * MaxCols + 1)

Add(A, B) == Mat(A.nr, A.nc, LAMBDA i, j : At(A, i, j) + At(B, i, j))

Transposed(A) == Mat(A.nc, A.nr, LAMBDA i, j : At(A, j, i))

RECURSIVE Eval(_, _)
RECURSIVE EvalSum(_, _, _)
EvalSum(args, k, e) ==
  IF k = Len(args) THEN Eval(args[k], e)
  ELSE Add(Eval(args[k], e), EvalSum(args, k + 1, e))

\* the value of the expression a LinOp tree stands for
Eval(n, e) ==
  IF n.type = VARIABLE_ THEN VarValue(n.size, e)
  ELSE IF n.type \in {PARAM, SCALAR_CONST, DENSE_CONST, SPARSE_CONST} THEN n.value
  ELSE IF n.type = SUM THEN EvalSum(n.args, 1, e)
  ELSE IF n.type = NEG THEN Negate(Eval(n.args[1], e))
  ELSE IF n.type = MUL THEN Times(Eval(n.args[1], e), Eval(n.args[2], e))
  ELSE IF n.type = SUM_ENTRIES THEN SumAll(Eval(n.args[1], e))
  ELSE IF n.type = INDEX
  THEN LET v == Eval(n.args[1], e)
       IN  Mat(SliceLen(n.key[1], v.nr), SliceLen(n.key[2], v.nc),
               LAMBDA i, j : At(v, SliceAt(n.key[1], i), SliceAt(n.key[2], j)))
  ELSE Transposed(Eval(n.args[1], e))

\* what one triple contributes to the flattened output
Contribution(t, e) ==
  IF t.id = ConstantId THEN flatten(t.block)
  ELSE MatMul(t.block, flatten(VarValue(t.size, e)))

TripleFits(t, len) ==
  IF t.id = ConstantId THEN t.block.nr * t.block.nc = len
  ELSE t.block.nr = len /\ t.block.nc = t.size[1] * t.size[2]

RECURSIVE SumContributions(_, _, _, _)
SumContributions(coeffs, k, e, len) ==
  IF k > Len(coeffs) THEN Zeros(len, 1)
  ELSE Add(Contribution(coeffs[k], e), SumContributions(coeffs, k + 1, e, len))

Reconstructs(n, coeffs) ==
  LET len == n.size[1] * n.size[2]
  IN  /\ \A k \in 1..Len(coeffs) : TripleFits(coeffs[k], len)
      /\ \A e \in Envs : SumContributions(coeffs, 1, e, len) = flatten(Eval(n, e))

RECURSIVE HasUnknown(_)
HasUnknown(n) ==
  \/ n.type = UNKNOWN_OP
  \/ \E k \in 1..Len(n.args) : HasUnknown(n.args[k])

RECURSIVE Subtrees(_)
Subtrees(n) == {n} \cup UNION {Subtrees(n.args[k]) : k \in 1..Len(n.args)}

IsConstLeaf(n) == n.type \in {PARAM, SCALAR_CONST, DENSE_CONST, SPARSE_CONST}

\* ------------------------------------------------------------------ claims

\* C1: whenever get_coefficients returns, the variable blocks applied to the
\* flattened variable values plus the constant blocks give the flattened
\* value of the tree, for every assignment.
Reconstruction == out.status = "ok" => Reconstructs(tree, out.coeffs)

\* ---- C3
CleanSubtreesCompile(n) ==
  \A t \in Subtrees(n) : ~HasUnknown(t) => get_coefficients(t).status = "ok"

\* C3 as stated: a tree with a node of unknown kind anywhere always ends in
\* the "Unknown linear operator" error.
UnknownAlwaysReported == HasUnknown(tree) => out.status = "UnknownOperator"

\* C3 as amended: a tree with a node of unknown kind never returns a triple
\* list, and it ends in the "Unknown linear operator" error whenever every
\* subtree free of unknown kinds compiles.
UnknownNeverReturns ==
  HasUnknown(tree) =>
    /\ out.status # "ok"
    /\ out.coeffs = <<>>
    /\ CleanSubtreesCompile(tree) => out.status = "UnknownOperator"

\* an unknown leaf two composite nodes deep, reported at the top
UnknownDeepCase ==
  /\ depth = 2
  /\ tree.type \in {SUM, NEG, MUL, SUM_ENTRIES, INDEX, TRANSPOSE}
  /\ \E k \in 1..Len(tree.args) :
       /\ tree.args[k].type \in {SUM, NEG, MUL, SUM_ENTRIES, INDEX, TRANSPOSE}
       /\ \E m \in 1..Len(tree.args[k].args) : tree.args[k].args[m].type = UNKNOWN_OP
  /\ out.status = "UnknownOperator"

\* ---- C4
RECURSIVE LenBefore(_, _)
LenBefore(parts, k) ==
  IF k = 1 THEN 0 ELSE LenBefore(parts, k - 1) + Len(parts[k - 1].coeffs)

\* C4: a SUM whose children all compile returns their triples one child
\* after the other, in child order, each triple unchanged and none merged.
SumLinearity ==
  LET parts == [k \in 1..Len(tree.args) |-> get_coefficients(tree.args[k])]
  IN  (tree.type = SUM /\ \A k \in 1..Len(parts) : parts[k].status = "ok") =>
        /\ out.status = "ok"
        /\ Len(out.coeffs) = LenBefore(parts, Len(parts) + 1)
        /\ \A k \in 1..Len(parts) : \A m \in 1..Len(parts[k].coeffs) :
             out.coeffs[LenBefore(parts, k) + m] = parts[k].coeffs[m]

\* a SUM of three children, two of them the same variable, kept apart
SumLinearityCase ==
  /\ tree.type = SUM
  /\ Len(tree.args) = 3
  /\ out.status = "ok"
  /\ \E a, b \in 1..Len(out.coeffs) :
       a < b /\ out.coeffs[a].id = out.coeffs[b].id /\ out.coeffs[a].id # ConstantId

\* ---- C5
\* C5: TRANSPOSE(TRANSPOSE(v)) of a bare variable v compiles to what v
\* compiles to, one triple with the identity block.
TransposeInvolution ==
  (/\ tree.type = TRANSPOSE
   /\ tree.args[1].type = TRANSPOSE
   /\ tree.args[1].args[1].type = VARIABLE_) =>
     /\ out = get_coefficients(tree.args[1].args[1])
     /\ out.coeffs[1].block = Eye(tree.size[1] * tree.size[2])

\* ---- C6
FullKey(n) == <<Slice(0, n.size[1], 1), Slice(0, n.size[2], 1)>>

\* C6: INDEX of a bare variable by its full range compiles to what the
\* variable compiles to.
SlicingRoundTrip ==
  (/\ tree.type = INDEX
   /\ tree.args[1].type = VARIABLE_
   /\ tree.key = FullKey(tree.args[1])) =>
     out = get_coefficients(tree.args[1])

\* ---- C7
IsColumnProduct(n) ==
  /\ n.type = MUL
  /\ IsConstLeaf(n.args[1])
  /\ n.args[2].type = VARIABLE_
  /\ n.args[2].size = <<n.args[1].size[2], 1>>

\* C7: MUL(c, x) of a constant leaf c (m x k) and a bare variable x (k x 1)
\* compiles to the one triple (x's id, x's shape, c).
ProductSingleColumn ==
  IsColumnProduct(tree) =>
    out = Ok(<<Triple(tree.args[2].id, tree.args[2].size, tree.args[1].value)>>)

\* a constant that is not square times a column variable
ProductSingleColumnCase ==
  /\ IsColumnProduct(tree)
  /\ tree.args[1].size[1] # tree.args[1].size[2]
  /\ tree.args[1].size[2] > 1
  /\ out.status = "ok"

\* ---- C8
OneTripleChild(n) ==
  /\ n.type = TRANSPOSE
  /\ get_coefficients(n.args[1]).status = "ok"
  /\ Len(get_coefficients(n.args[1]).coeffs) = 1

ChildTriple(n) == get_coefficients(n.args[1]).coeffs[1]

\* C8 as stated: the block of a TRANSPOSE has P[col*rows + row, row*cols + col] = 1
\* for every row and col of its child's shape, 0 elsewhere.
TransposeEntriesAsStated ==
  OneTripleChild(tree) =>
    LET rows == ChildTriple(tree).size[1]
        cols == ChildTriple(tree).size[2]
        P == out.coeffs[1].block
    IN  /\ size(P) = <<rows * cols, rows * cols>>
        /\ \A i, j \in 0..(rows * cols - 1) :
             At(P, i, j) = IF \E row \in 0..(rows - 1), col \in 0..(cols - 1) :
                                 i = col * rows + row /\ j = row * cols + col
                           THEN 1 ELSE 0

\* C8 as amended: the block of a TRANSPOSE has P[row*cols + col, col*rows + row] = 1
\* for every row and col of its child's shape, and rows*cols ones in all.
TransposeEntries ==
  OneTripleChild(tree) =>
    LET rows == ChildTriple(tree).size[1]
        cols == ChildTriple(tree).size[2]
        P == out.coeffs[1].block
    IN  /\ out.status = "ok"
        /\ size(P) = <<rows * cols, rows * cols>>
        /\ \A row \in 0..(rows - 1), col \in 0..(cols - 1) :
             At(P, row * cols + col, col * rows + row) = 1
        /\ \A k \in 1..Len(P.a) : P.a[k] \in {0, 1}
        /\ SumTo(LAMBDA k : P.a[k + 1], Len(P.a)) = rows * cols

\* a TRANSPOSE over a single triple whose shape is not square and not a vector
TransposeEntriesCase ==
  /\ OneTripleChild(tree)
  /\ ChildTriple(tree).size[1] > 1
  /\ ChildTriple(tree).size[2] > 1
  /\ ChildTriple(tree).size[1] # ChildTriple(tree).size[2]
  /\ out.status = "ok"

\* ---- C9
\* C9: every variable triple returned for a node has a block with as many
\* rows as the node has entries and as many columns as the variable has.
BlockDimensions ==
  out.status = "ok" =>
    \A k \in 1..Len(out.coeffs) :
      out.coeffs[k].id # ConstantId =>
        /\ out.coeffs[k].block.nr = tree.size[1] * tree.size[2]
        /\ out.coeffs[k].block.nc = out.coeffs[k].size[1] * out.coeffs[k].size[2]

\* ---- C10
\* C10: a TRANSPOSE whose child compiles to one variable triple (id, shape, B)
\* returns (id, shape, P * B); with any other number of triples it fails.
TransposeComposes ==
  (tree.type = TRANSPOSE /\ get_coefficients(tree.args[1]).status = "ok") =>
    LET c == get_coefficients(tree.args[1]).coeffs
    IN  IF Len(c) # 1 THEN out.status # "ok"
        ELSE LET P == TransposeBlock(c[1].size[1], c[1].size[2])
             IN  (c[1].id # ConstantId /\ P.nc = c[1].block.nr) =>
                   out = Ok(<<Triple(c[1].id, c[1].size, MatMul(P, c[1].block))>>)

\* ---- C2
\* the triples the inner for has still to visit
Remaining == Len(rh_coeffs) - rh_pos + 1

\* C2: mul_coeffs comes to an end: every pass of the inner for leaves it
\* fewer triples to visit, whatever the number of left-hand triples.
InnerLoopProgress ==
  [][(pc = "inner" /\ pc' = "inner") => Remaining' < Remaining]_vars

\* Once rh_coeffs is new_coeffs and holds a triple, the inner for never
\* finds its list exhausted.
AliasedLoopNeverEnds ==
  (pc = "inner" /\ aliased /\ Len(new_coeffs) > 0) =>
     (rh_coeffs = new_coeffs /\ rh_pos <= Len(rh_coeffs))

\* The statements followed one by one end as mul_coeffs computes it.
StepsAgree ==
  /\ pc \in {"done", "raised"} => out = mul_coeffs(tree)
  /\ (pc = "inner" /\ Len(new_coeffs) = MaxList /\ rh_pos <= Len(rh_coeffs) /\ CurrentProduct.ok)
       => mul_coeffs(tree).status = "NoReturn"

====
